---- MODULE Spec2Model ----
(***************************************************************************)
(* The mock-data generation pipeline of the Employee Management API        *)
(* (routers/generate_data.py) over the relational store declared in        *)
(* models.py, with the list endpoint of routers/employees.py as a reader.  *)
(*                                                                         *)
(* A request handler works on its own session: DELETE statements and       *)
(* added rows stay private to the session until db.commit() publishes      *)
(* them, and db.rollback() discards whatever is not yet committed.         *)
(* Only the columns that the generator reads back or that a constraint     *)
(* refers to are kept in the rows (ids, foreign keys, names, dates, the    *)
(* money columns of Salary); free-text columns, budgets and the            *)
(* project/assignment dates are left out.  Every row carries one history   *)
(* field, gen, the number of the request that inserted it.                 *)
(***************************************************************************)
EXTENDS Integers, Sequences, FiniteSets, TLC

----------------------------------------------------------------------------
(* Bounds of the model *)

\* dates are day numbers MinDate..Today; MinDate stands for "-5y"
Today == 1
\* largest requested count of each kind (besides the overflow request)
MaxDepartments == 2
MaxEmployeesPerDept == 3
MaxProjectsPerDept == 1
MaxSalariesPerEmployee == 1
\* cap on departments * employees_per_dept of one request
MaxTotalEmployees == 4
\* cap on the Salary rows of one request
MaxTotalSalaries == 2
\* largest counts of a request in the two-worker specification
MaxConcDepartments == 1
MaxConcEmployeesPerDept == 2
MaxConcSalariesPerEmployee == 0
\* number of generation requests in one behaviour
MaxRequests == 2
\* the smallest count a request carries: the handler rejects no integer
MinCount == 0 - 1

----------------------------------------------------------------------------
(* Program constants *)

MinDate == 0
\* random.randint(1, 100) of the synthesized department names
MaxSuffix == 100
\* "Assign 2-5 random employees to each project"
MinAssignees == 2
MaxAssignees == 5

DepartmentName == {"HR", "Engineering", "Marketing", "Finance", "Sales"}

NumNames == Cardinality(DepartmentName)

Dates == MinDate..Today

\* the two processes that may serve generation requests
Workers == {1, 2}

VARIABLES
  store,             \* committed rows: [depts, emps, projs, assigns, sals]
  pc,                \* pc[w]: position of worker w in generate_mock_data
  params,            \* params[w]: the query parameters of w's request
  sess,              \* sess[w]: rows deleted in w's open transaction
  lock,              \* the workers whose transaction holds uncommitted
                     \* writes: none or one
  dept_objects,      \* dept_objects[w]: ids of the Department objects
  employee_objects,  \* employee_objects[w]: ids of the Employee objects
  project_objects,   \* project_objects[w]: ids of the Project objects
  resp,              \* resp[w]: the response of w's request
  nreq,              \* history: number of requests started
  reqNo,             \* history: reqNo[w], the number of w's request
  prevOk,            \* history: w's previous request returned success
  changed            \* history: changed[w][t], a commit has altered table t
                     \* since w's request started

vars == <<store, pc, params, sess, lock, dept_objects, employee_objects,
          project_objects, resp, nreq, reqNo, prevOk, changed>>

----------------------------------------------------------------------------
(* Helpers *)

Min(a, b) == IF a < b THEN a ELSE b

\* len(range(n))
RangeLen(n) == IF n > 0 THEN n ELSE 0

\* len(range(a, b))
RangeLen2(a, b) == RangeLen(b - a)

\* the primary key the store assigns next: one above the largest in use
MaxId(rows) ==
  IF rows = {} THEN 0
  ELSE CHOOSE m \in {r.id : r \in rows} : \A r \in rows : r.id <= m

EmptyStore == [depts |-> {}, emps |-> {}, projs |-> {}, assigns |-> {}, sals |-> {}]

NoStats == [departments |-> 0, employees |-> 0, projects |-> 0, salaries |-> 0]

NoParams == [departments |-> 0, employees_per_dept |-> 0,
             projects_per_dept |-> 0, salaries_per_employee |-> 0]

AllRows(s) == s.depts \cup s.emps \cup s.projs \cup s.assigns \cup s.sals

Unchanged == [t \in DOMAIN EmptyStore |-> FALSE]

\* db.commit(): the session's work becomes the committed store
Commit(new) ==
  /\ store' = new
  /\ changed' = [v \in Workers |->
                   [t \in DOMAIN store |-> changed[v][t] \/ new[t] # store[t]]]

\* the rows w's session sees: the committed rows less its own pending deletes
View(w) == [t \in DOMAIN store |-> store[t] \ sess[w][t]]

\* the row of table t with primary key i, as a refresh of an expired object reads it
RowsById(t, i) == {r \in store[t] : r.id = i}

Row(t, i) == CHOOSE r \in store[t] : r.id = i

\* every object of the list still has its row (else ObjectDeletedError)
AllPresent(t, objs) == \A k \in 1..Len(objs) : RowsById(t, objs[k]) # {}

----------------------------------------------------------------------------
(* Requests *)

\* departments takes the counts up to MaxDepartments and one count above
\* the number of canonical names
DepartmentCounts == (MinCount..MaxDepartments) \cup {NumNames + 1}

RequestParams ==
  {p \in [departments : DepartmentCounts,
          employees_per_dept : MinCount..MaxEmployeesPerDept,
          projects_per_dept : MinCount..MaxProjectsPerDept,
          salaries_per_employee : MinCount..MaxSalariesPerEmployee] :
     LET n == RangeLen(Min(p.departments, MaxDepartments))
                * RangeLen(p.employees_per_dept)
     IN /\ n <= MaxTotalEmployees
        /\ n * RangeLen(p.salaries_per_employee) <= MaxTotalSalaries}

\* the requests of the two-worker specification
ConcRequestParams ==
  [departments : 0..MaxConcDepartments,
   employees_per_dept : 0..MaxConcEmployeesPerDept,
   projects_per_dept : 0..MaxProjectsPerDept,
   salaries_per_employee : 0..MaxConcSalariesPerEmployee]

Init ==
  /\ store = EmptyStore
  /\ pc = [w \in Workers |-> "idle"]
  /\ params = [w \in Workers |-> NoParams]
  /\ sess = [w \in Workers |-> EmptyStore]
  /\ lock = {}
  /\ dept_objects = [w \in Workers |-> <<>>]
  /\ employee_objects = [w \in Workers |-> <<>>]
  /\ project_objects = [w \in Workers |-> <<>>]
  /\ resp = [w \in Workers |-> [status |-> "none", stats |-> NoStats]]
  /\ nreq = 0
  /\ reqNo = [w \in Workers |-> 0]
  /\ prevOk = [w \in Workers |-> FALSE]
  /\ changed = [w \in Workers |-> Unchanged]

\* POST /generate/mock_data arrives with parameters p
Begin(w, P) ==
  /\ nreq < MaxRequests
  /\ \E p \in P :
       params' = [params EXCEPT ![w] = p]
  /\ pc' = [pc EXCEPT ![w] = "del_assignments"]
  /\ sess' = [sess EXCEPT ![w] = EmptyStore]
  /\ dept_objects' = [dept_objects EXCEPT ![w] = <<>>]
  /\ employee_objects' = [employee_objects EXCEPT ![w] = <<>>]
  /\ project_objects' = [project_objects EXCEPT ![w] = <<>>]
  /\ resp' = [resp EXCEPT ![w] = [status |-> "none", stats |-> NoStats]]
  /\ nreq' = nreq + 1
  /\ reqNo' = [reqNo EXCEPT ![w] = nreq + 1]
  /\ prevOk' = [prevOk EXCEPT ![w] = (resp[w].status = "ok")]
  /\ changed' = [changed EXCEPT ![w] = Unchanged]
  /\ UNCHANGED <<store, lock>>

\* the first request a worker serves, and a request after its last response
Start(w, P) == pc[w] = "idle" /\ Begin(w, P)

StartNext(w, P) == pc[w] = "done" /\ Begin(w, P)

\* except Exception: db.rollback(); raise HTTPException(500)
Fail(w) ==
  /\ sess' = [sess EXCEPT ![w] = EmptyStore]
  /\ lock' = lock \ {w}
  /\ resp' = [resp EXCEPT ![w] = [status |-> "error", stats |-> NoStats]]
  /\ pc' = [pc EXCEPT ![w] = "done"]
  /\ UNCHANGED <<store, params, dept_objects, employee_objects, project_objects,
                 nreq, reqNo, prevOk, changed>>

\* one db.query(T).delete() of the reset: all rows of table t, in the
\* session only.  The store runs one writing transaction at a time: the
\* statement waits while another session holds uncommitted writes.
Delete(w, at, t, next) ==
  /\ pc[w] = at
  /\ lock \subseteq {w}
  /\ lock' = {w}
  /\ sess' = [sess EXCEPT ![w][t] = store[t]]
  /\ pc' = [pc EXCEPT ![w] = next]
  /\ UNCHANGED <<store, params, dept_objects, employee_objects,
                 project_objects, resp, nreq, reqNo, prevOk, changed>>

\* a reset that starts with the parent table
DeleteAssignments_DepartmentsFirst(w) ==
  Delete(w, "del_assignments", "depts", "del_salaries")

DeleteAssignments(w) == Delete(w, "del_assignments", "assigns", "del_salaries")

DeleteSalaries(w) == Delete(w, "del_salaries", "sals", "del_projects")

\* a reset that leaves the Project table alone
DeleteProjects_Skipped(w) ==
  /\ pc[w] = "del_projects"
  /\ pc' = [pc EXCEPT ![w] = "del_employees"]
  /\ UNCHANGED <<store, params, sess, lock, dept_objects, employee_objects,
                 project_objects, resp, nreq, reqNo, prevOk, changed>>

DeleteProjects(w) == Delete(w, "del_projects", "projs", "del_employees")

DeleteEmployees(w) == Delete(w, "del_employees", "emps", "del_departments")

DeleteDepartments(w) == Delete(w, "del_departments", "depts", "commit_reset")

\* db.commit() of the reset: the pending deletes reach the store
CommitReset(w) ==
  /\ pc[w] = "commit_reset"
  /\ Commit(View(w))
  /\ sess' = [sess EXCEPT ![w] = EmptyStore]
  /\ lock' = {}
  /\ pc' = [pc EXCEPT ![w] = "gen_departments"]
  /\ UNCHANGED <<params, dept_objects, employee_objects, project_objects, resp,
                 nreq, reqNo, prevOk>>

----------------------------------------------------------------------------
(* Stage 1: departments *)

Raised == [ok |-> FALSE, rows |-> {}, ids |-> <<>>]

\* a department name: a canonical name, with a numeric suffix (0: none)
CanonicalName(b) == [base |-> b, suffix |-> 0]

\* f"{base_name} {random.randint(1, 100)}"
SynthName(b, k) == [base |-> b, suffix |-> k]

\* name: DepartmentName -- the value must be one of the enum's values
ValidDepartmentName(n) == n.suffix = 0 /\ n.base \in DepartmentName

\* employee_count: int = Field(0, ge=0)
ValidEmployeeCount(n) == n >= 0

\* fake.date_between(start_date="-5y", end_date="today")
EstablishedDates == MinDate..Today

\* the first loop: the first n1 names of the shuffled enum, each with a date
FirstLoop(n1) ==
  {f \in [1..n1 -> [name : {CanonicalName(b) : b \in DepartmentName},
                    est : EstablishedDates]] :
     \A i, j \in 1..n1 : i # j => f[i].name # f[j].name}

\* the second loop: a re-sampled name with a suffix, no uniqueness re-check
SecondLoop(extra) ==
  [1..extra -> [name : {SynthName(b, k) : b \in DepartmentName, k \in 1..MaxSuffix},
                est : EstablishedDates]]

\* db.commit() of the departments: name is unique=True
CommitDepartments(w, specs) ==
  LET base == MaxId(store.depts)
      n == Len(specs)
      rows == {[id |-> base + i, name |-> specs[i].name, est |-> specs[i].est,
                gen |-> reqNo[w]] : i \in 1..n}
  IN IF \/ \E i, j \in 1..n : i # j /\ specs[i].name = specs[j].name
        \/ \E i \in 1..n : \E d \in store.depts : d.name = specs[i].name
     THEN Raised
     ELSE [ok |-> TRUE, rows |-> rows, ids |-> [i \in 1..n |-> base + i]]

DepartmentOutcomes(w) ==
  LET p == params[w]
      n1 == RangeLen(Min(p.departments, NumNames))
      extra == RangeLen2(NumNames, p.departments)
  IN IF n1 > 0 /\ ~ValidEmployeeCount(p.employees_per_dept) THEN {Raised}
     ELSE UNION {IF \E i \in 1..extra : ~ValidDepartmentName(second[i].name)
                 THEN {Raised}
                 ELSE {CommitDepartments(w, first \o second) : first \in FirstLoop(n1)}
                 : second \in SecondLoop(extra)}

\* a first stage that hands its objects on without db.commit()
GenerateDepartments_Uncommitted(w) ==
  /\ pc[w] = "gen_departments"
  /\ lock = {}
  /\ \E o \in DepartmentOutcomes(w) :
       IF ~o.ok THEN Fail(w)
       ELSE /\ dept_objects' = [dept_objects EXCEPT ![w] = o.ids]
            /\ pc' = [pc EXCEPT ![w] = "gen_employees"]
            /\ UNCHANGED <<store, changed, params, sess, lock, employee_objects,
                           project_objects, resp, nreq, reqNo, prevOk>>

GenerateDepartments(w) ==
  /\ pc[w] = "gen_departments"
  /\ lock = {}
  /\ \E o \in DepartmentOutcomes(w) :
       IF ~o.ok THEN Fail(w)
       ELSE /\ Commit([View(w) EXCEPT !.depts = @ \cup o.rows])
            /\ dept_objects' = [dept_objects EXCEPT ![w] = o.ids]
            /\ pc' = [pc EXCEPT ![w] = "gen_employees"]
            /\ UNCHANGED <<params, sess, lock, employee_objects, project_objects, resp,
                           nreq, reqNo, prevOk>>

----------------------------------------------------------------------------
(* Stage 2: employees *)

\* a hire date drawn like the established date, from "-5y"
HireDates_AnyDate(est) == MinDate..Today

\* fake.date_between(start_date=dept.established_date, end_date="today")
HireDates(est) == est..Today

\* validate_hire_date: "Hire date cannot be in the future"
ValidHireDate(v) == ~(v > Today)

\* the department of the s-th object created by
\* "for dept in dept_objects: for _ in range(per_dept)"
DeptOfSlot(w, s, per_dept) == dept_objects[w][((s - 1) \div per_dept) + 1]

EmployeeOutcomes(w) ==
  LET e == RangeLen(params[w].employees_per_dept)
      n == Len(dept_objects[w]) * e
      base == MaxId(store.emps)
  IN IF n > 0 /\ ~AllPresent("depts", dept_objects[w]) THEN {Raised}
     ELSE {IF \E s \in 1..n : ~ValidHireDate(f[s]) THEN Raised
           ELSE [ok |-> TRUE,
                 rows |-> {[id |-> base + s, dept |-> DeptOfSlot(w, s, e),
                            hire |-> f[s], gen |-> reqNo[w]] : s \in 1..n},
                 ids |-> [s \in 1..n |-> base + s]]
           : f \in {g \in [1..n -> Dates] :
                      \A s \in 1..n :
                        g[s] \in HireDates(Row("depts", DeptOfSlot(w, s, e)).est)}}

GenerateEmployees(w) ==
  /\ pc[w] = "gen_employees"
  /\ lock = {}
  /\ \E o \in EmployeeOutcomes(w) :
       IF ~o.ok THEN Fail(w)
       ELSE /\ Commit([View(w) EXCEPT !.emps = @ \cup o.rows])
            /\ employee_objects' = [employee_objects EXCEPT ![w] = o.ids]
            /\ pc' = [pc EXCEPT ![w] = "gen_projects"]
            /\ UNCHANGED <<params, sess, lock, dept_objects, project_objects, resp,
                           nreq, reqNo, prevOk>>

----------------------------------------------------------------------------
(* Stage 3: projects *)

\* projects created for the first department only
ProjectOutcomes_FirstDepartment(w) ==
  LET q == RangeLen(params[w].projects_per_dept)
      n == Min(Len(dept_objects[w]), 1) * q
      base == MaxId(store.projs)
  IN IF n > 0 /\ ~AllPresent("depts", dept_objects[w]) THEN {Raised}
     ELSE {[ok |-> TRUE,
            rows |-> {[id |-> base + s, dept |-> DeptOfSlot(w, s, q),
                       gen |-> reqNo[w]] : s \in 1..n},
            ids |-> [s \in 1..n |-> base + s]]}

ProjectOutcomes(w) ==
  LET q == RangeLen(params[w].projects_per_dept)
      n == Len(dept_objects[w]) * q
      base == MaxId(store.projs)
  IN IF n > 0 /\ ~AllPresent("depts", dept_objects[w]) THEN {Raised}
     ELSE {[ok |-> TRUE,
            rows |-> {[id |-> base + s, dept |-> DeptOfSlot(w, s, q),
                       gen |-> reqNo[w]] : s \in 1..n},
            ids |-> [s \in 1..n |-> base + s]]}

GenerateProjects(w) ==
  /\ pc[w] = "gen_projects"
  /\ lock = {}
  /\ \E o \in ProjectOutcomes(w) :
       IF ~o.ok THEN Fail(w)
       ELSE /\ Commit([View(w) EXCEPT !.projs = @ \cup o.rows])
            /\ project_objects' = [project_objects EXCEPT ![w] = o.ids]
            /\ pc' = [pc EXCEPT ![w] = "gen_assignments"]
            /\ UNCHANGED <<params, sess, lock, dept_objects, employee_objects, resp,
                           nreq, reqNo, prevOk>>

----------------------------------------------------------------------------
(* Stage 4: project assignments *)

\* a lower end clamped to the employees there are: randint never raises
SampleSizes_Clamped(per_dept) ==
  Min(MinAssignees, RangeLen(per_dept))..Min(MaxAssignees, RangeLen(per_dept))

\* random.randint(2, min(5, employees_per_dept)): empty when the upper end
\* is below 2, and randint then raises ValueError
SampleSizes(per_dept) == MinAssignees..Min(MaxAssignees, per_dept)

\* the pool without its department filter
Pool_AnyDepartment(w, proj) ==
  {employee_objects[w][k] : k \in 1..Len(employee_objects[w])}

\* [e for e in employee_objects if e.department_id == project.department_id]
Pool(w, proj) ==
  {employee_objects[w][k] : k \in
     {k \in 1..Len(employee_objects[w]) :
        Row("emps", employee_objects[w][k]).dept = Row("projs", proj).dept}}

\* k draws with replacement, the repeated employees kept once
Sample_WithReplacement(pool, k) ==
  {S \in SUBSET pool : S # {} /\ Cardinality(S) <= k}

\* random.sample(pool, k): k distinct members of the pool; ValueError when
\* k exceeds the size of the pool
Sample(pool, k) == {S \in SUBSET pool : Cardinality(S) = k}

SampleRaises(pool, sizes) == sizes = {} \/ \E k \in sizes : k > Cardinality(pool)

Assignees(w, proj) ==
  UNION {Sample(Pool(w, proj), k) : k \in SampleSizes(params[w].employees_per_dept)}

\* the ProjectEmployee rows added for the first i projects
RECURSIVE AssignmentBatches(_, _)
AssignmentBatches(w, i) ==
  IF i = 0 THEN {{}}
  ELSE {rs \cup {[emp |-> e, proj |-> project_objects[w][i], gen |-> reqNo[w]] : e \in A} :
          rs \in AssignmentBatches(w, i - 1),
          A \in Assignees(w, project_objects[w][i])}

\* db.commit() of the assignments: (employee_id, project_id) is the primary key
CommitAssignments(rows) ==
  IF \E r \in rows : \E a \in store.assigns : a.emp = r.emp /\ a.proj = r.proj
  THEN Raised
  ELSE [ok |-> TRUE, rows |-> rows, ids |-> <<>>]

AssignmentOutcomes(w) ==
  LET n == Len(project_objects[w])
      sizes == SampleSizes(params[w].employees_per_dept)
  IN IF n = 0 THEN {CommitAssignments({})}
     ELSE IF ~AllPresent("projs", project_objects[w])
             \/ ~AllPresent("emps", employee_objects[w]) THEN {Raised}
     ELSE {Raised : i \in {i \in 1..n :
                             SampleRaises(Pool(w, project_objects[w][i]), sizes)}}
          \cup {CommitAssignments(rows) : rows \in AssignmentBatches(w, n)}

GenerateAssignments(w) ==
  /\ pc[w] = "gen_assignments"
  /\ lock = {}
  /\ \E o \in AssignmentOutcomes(w) :
       IF ~o.ok THEN Fail(w)
       ELSE /\ Commit([View(w) EXCEPT !.assigns = @ \cup o.rows])
            /\ pc' = [pc EXCEPT ![w] = "gen_salaries"]
            /\ UNCHANGED <<params, sess, lock, dept_objects, employee_objects,
                           project_objects, resp, nreq, reqNo, prevOk>>

----------------------------------------------------------------------------
(* Stage 5: salaries *)

\* a payment date drawn without regard to the hire date
PaymentDates_AnyDate(hire) == MinDate..Today

\* fake.date_between(start_date=emp.hire_date, end_date="today")
PaymentDates(hire) == hire..Today

\* the random draws behind the money columns of one Salary, each at the
\* lower and at the upper end of its range: base_salary from
\* uniform(45000, 120000), and in per cent the factor of the amount from
\* uniform(0.9, 1.1), that of the tax from uniform(0.8, 1.2) and that of the
\* bonus from random(), which is in [0, 1)
SalaryDraws ==
  {[base |-> 45000, amount_pct |-> 90, tax_pct |-> 80, bonus_pct |-> 0],
   [base |-> 120000, amount_pct |-> 110, tax_pct |-> 120, bonus_pct |-> 99]}

\* round(base_salary * random.uniform(0.9, 1.1), 2)
Amount(d) == (d.base * d.amount_pct) \div 100

\* round(base_salary * 0.2 * random.uniform(0.8, 1.2), 2)
TaxDeduction(d) == (d.base * 20 * d.tax_pct) \div 10000

\* round(base_salary * 0.1 * random.random(), 2)
Bonus(d) == (d.base * 10 * d.bonus_pct) \div 10000

\* SalaryCreate: amount gt=0, tax_deduction ge=0, bonus ge=0
ValidSalary(d) == Amount(d) > 0 /\ TaxDeduction(d) >= 0 /\ Bonus(d) >= 0

\* the employee of the s-th Salary created by
\* "for emp in employee_objects: for _ in range(per_emp)"
EmpOfSlot(w, s, per_emp) == employee_objects[w][((s - 1) \div per_emp) + 1]

SalaryOutcomes(w) ==
  LET q == RangeLen(params[w].salaries_per_employee)
      n == Len(employee_objects[w]) * q
      base == MaxId(store.sals)
  IN IF n > 0 /\ ~AllPresent("emps", employee_objects[w]) THEN {Raised}
     ELSE {IF \E s \in 1..n : ~ValidSalary(f[s].draw) THEN Raised
           ELSE [ok |-> TRUE,
                 rows |-> {[id |-> base + s, emp |-> EmpOfSlot(w, s, q),
                            pay |-> f[s].pay, amount |-> Amount(f[s].draw),
                            tax |-> TaxDeduction(f[s].draw),
                            bonus |-> Bonus(f[s].draw),
                            gen |-> reqNo[w]] : s \in 1..n},
                 ids |-> <<>>]
           : f \in {g \in [1..n -> [pay : Dates, draw : SalaryDraws]] :
                      \A s \in 1..n :
                        g[s].pay \in PaymentDates(Row("emps", EmpOfSlot(w, s, q)).hire)}}

GenerateSalaries(w) ==
  /\ pc[w] = "gen_salaries"
  /\ lock = {}
  /\ \E o \in SalaryOutcomes(w) :
       IF ~o.ok THEN Fail(w)
       ELSE /\ Commit([View(w) EXCEPT !.sals = @ \cup o.rows])
            /\ pc' = [pc EXCEPT ![w] = "return"]
            /\ UNCHANGED <<params, sess, lock, dept_objects, employee_objects,
                           project_objects, resp, nreq, reqNo, prevOk>>

\* the "stats" of the success payload
Stats(w) ==
  [departments |-> Len(dept_objects[w]),
   employees |-> Len(employee_objects[w]),
   projects |-> Len(project_objects[w]),
   salaries |-> Len(employee_objects[w]) * params[w].salaries_per_employee]

\* return {"message": "Mock data generated successfully", "stats": ...}
Return(w) ==
  /\ pc[w] = "return"
  /\ resp' = [resp EXCEPT ![w] = [status |-> "ok", stats |-> Stats(w)]]
  /\ pc' = [pc EXCEPT ![w] = "done"]
  /\ UNCHANGED <<store, params, sess, lock, dept_objects, employee_objects,
                 project_objects, nreq, reqNo, prevOk, changed>>

----------------------------------------------------------------------------
(* The list endpoints: db.query(T).all() on a session of its own returns
   the committed rows *)

read_departments == store.depts

read_employees == store.emps

read_projects == store.projs

read_salaries == store.sals

Running(w) == pc[w] \notin {"idle", "done"}

----------------------------------------------------------------------------
(* Specifications *)

Request(w, P) ==
  \/ Start(w, P)
  \/ DeleteAssignments(w)
  \/ DeleteSalaries(w)
  \/ DeleteProjects(w)
  \/ DeleteEmployees(w)
  \/ DeleteDepartments(w)
  \/ CommitReset(w)
  \/ GenerateDepartments(w)
  \/ GenerateEmployees(w)
  \/ GenerateProjects(w)
  \/ GenerateAssignments(w)
  \/ GenerateSalaries(w)
  \/ Return(w)

\* one request at a time
Next == Request(1, RequestParams) \/ StartNext(1, RequestParams)

Spec == Init /\ [][Next]_vars

\* two worker processes, one request each, their steps interleaved
NextConc == \E w \in Workers : Request(w, ConcRequestParams)

SpecConc == Init /\ [][NextConc]_vars

----------------------------------------------------------------------------
(* Vocabulary of the properties *)

Done(w) == pc[w] = "done"

Ok(w) == Done(w) /\ resp[w].status = "ok"

Failed(w) == Done(w) /\ resp[w].status = "error"

NonNegative(p) ==
  /\ p.departments >= 0
  /\ p.employees_per_dept >= 0
  /\ p.projects_per_dept >= 0
  /\ p.salaries_per_employee >= 0

\* the store holds the counts that parameters p ask for
HoldsCountsOf(p) ==
  /\ Cardinality(store.depts) = p.departments
  /\ Cardinality(store.emps) = p.departments * p.employees_per_dept
  /\ Cardinality(store.projs) = p.departments * p.projects_per_dept
  /\ Cardinality(store.sals) =
       p.departments * p.employees_per_dept * p.salaries_per_employee

\* every row of the store was inserted by request g
OnlyRowsOf(g) ==
  /\ \A r \in store.depts : r.gen = g
  /\ \A r \in store.emps : r.gen = g
  /\ \A r \in store.projs : r.gen = g
  /\ \A r \in store.assigns : r.gen = g
  /\ \A r \in store.sals : r.gen = g

AssignmentsOf(proj) == {a \in store.assigns : a.proj = proj}

\* the number of rows of table t that request w asks for
Requested(w, t) ==
  LET p == params[w]
      d == RangeLen(p.departments)
  IN CASE t = "depts" -> d
       [] t = "emps" -> d * RangeLen(p.employees_per_dept)
       [] t = "projs" -> d * RangeLen(p.projects_per_dept)
       [] t = "sals" -> d * RangeLen(p.employees_per_dept)
                          * RangeLen(p.salaries_per_employee)

\* how the rows a list endpoint returns relate to the running request w:
\* the table as it was before the request, the table of the finished
\* request, or neither.  (A row deleted or inserted by a request never
\* returns or disappears within it, so "no commit has altered the table"
\* is "the table is what it was when the request started".)
ViewOf(rows, w, t) ==
  IF ~changed[w][t] THEN "before"
  ELSE IF (\A r \in rows : r.gen = reqNo[w]) /\ Cardinality(rows) = Requested(w, t)
  THEN "complete"
  ELSE "partial"

\* the positions of the reset, and the table each DELETE empties
ResetPcs == <<"del_assignments", "del_salaries", "del_projects",
              "del_employees", "del_departments", "commit_reset">>

ResetOrder == <<"assigns", "sals", "projs", "emps", "depts">>

\* the number of the reset statement w is about to run, 0 outside the reset
ResetStep(w) ==
  IF \E k \in DOMAIN ResetPcs : ResetPcs[k] = pc[w]
  THEN CHOOSE k \in DOMAIN ResetPcs : ResetPcs[k] = pc[w]
  ELSE 0

\* the foreign keys of models.py: every child row has its parent rows in v
RefClosed(v) ==
  /\ \A e \in v.emps : \E d \in v.depts : d.id = e.dept
  /\ \A p \in v.projs : \E d \in v.depts : d.id = p.dept
  /\ \A a \in v.assigns : /\ \E e \in v.emps : e.id = a.emp
                          /\ \E p \in v.projs : p.id = a.proj
  /\ \A x \in v.sals : \E e \in v.emps : e.id = x.emp

\* the positions of the generation stages, and the table each one fills
StagePcs == <<"gen_departments", "gen_employees", "gen_projects",
              "gen_assignments", "gen_salaries", "return">>

StageOrder == <<"depts", "emps", "projs", "assigns", "sals">>

\* the number of the stage w is about to run (6: all done), 0 outside them
StageStep(w) ==
  IF \E k \in DOMAIN StagePcs : StagePcs[k] = pc[w]
  THEN CHOOSE k \in DOMAIN StagePcs : StagePcs[k] = pc[w]
  ELSE 0

\* the committed rows of table t that request g inserted
RowsOf(t, g) == {r \in store[t] : r.gen = g}

\* the stage of table t of w's request is committed in full
StageCommitted(w, t) ==
  IF t = "assigns"
  THEN \A k \in 1..Len(project_objects[w]) :
         AssignmentsOf(project_objects[w][k]) # {}
  ELSE Cardinality(RowsOf(t, reqNo[w])) = Requested(w, t)

----------------------------------------------------------------------------
(* Properties *)

\* C1: when a generation request ends with the failure response, the
\* store holds exactly the rows it held when the request started.
C1_FailureRestoresStore ==
  \A w \in Workers : Failed(w) => \A t \in DOMAIN store : ~changed[w][t]

\* C2: after a successful request with non-negative counts the store holds
\* exactly departments Department rows, departments * employees_per_dept
\* Employee rows, departments * projects_per_dept Project rows and
\* departments * employees_per_dept * salaries_per_employee Salary rows.
C2_SuccessCounts ==
  \A w \in Workers : (Ok(w) /\ NonNegative(params[w])) => HoldsCountsOf(params[w])

C2_Witness ==
  /\ Ok(1) /\ reqNo[1] = 2 /\ changed[1].sals
  /\ params[1] = [departments |-> 1, employees_per_dept |-> 2,
                  projects_per_dept |-> 1, salaries_per_employee |-> 1]

\* C3: a request for one department more than there are canonical names,
\* with nothing else in it that could fail, ends in success with that many
\* departments: NumNames with distinct canonical names and one whose name
\* is a canonical name with a suffix in 1..MaxSuffix.
C3_OverflowRequestSucceeds ==
  \A w \in Workers :
    (/\ Done(w)
     /\ params[w].departments = NumNames + 1
     /\ NonNegative(params[w])
     /\ (params[w].projects_per_dept = 0 \/ params[w].employees_per_dept >= MinAssignees))
    => /\ resp[w].status = "ok"
       /\ Cardinality(store.depts) = params[w].departments
       /\ Cardinality({d \in store.depts : d.name.suffix = 0}) = NumNames
       /\ \A d \in store.depts : d.name.suffix \in 0..MaxSuffix

\* C4: a request with at least one department, at least one project per
\* department and 0 or 1 employees per department ends with the failure
\* response, and no request ends in success with a project that has fewer
\* than 2 assignments.
C4_TooFewCandidatesFails ==
  \A w \in Workers :
    /\ (/\ Done(w)
        /\ params[w].departments >= 1
        /\ params[w].projects_per_dept >= 1
        /\ params[w].employees_per_dept \in {0, 1})
       => resp[w].status = "error"
    /\ Ok(w) => \A p \in store.projs :
                  Cardinality(AssignmentsOf(p.id)) >= MinAssignees

C4_Witness ==
  /\ Failed(1)
  /\ params[1].departments = 1
  /\ params[1].employees_per_dept = 1
  /\ params[1].projects_per_dept = 1
  /\ Cardinality(store.emps) = 1
  /\ store.projs # {}
  /\ store.assigns = {}

\* C5: when two requests in a row both end in success, every row of the
\* store was inserted by the second request, and for non-negative counts
\* the store holds exactly the counts the second request asked for.
C5_SecondCallReplacesFirst ==
  \A w \in Workers :
    (Ok(w) /\ prevOk[w])
    => /\ OnlyRowsOf(reqNo[w])
       /\ NonNegative(params[w]) => HoldsCountsOf(params[w])

\* the second call asks for no department and has removed the first call's
C5_Witness ==
  /\ Ok(1) /\ prevOk[1] /\ reqNo[1] = 2
  /\ params[1].departments = 0
  /\ changed[1].depts /\ changed[1].emps /\ changed[1].assigns /\ changed[1].sals
  /\ AllRows(store) = {}

\* C6: while a generation request is running, each list endpoint returns
\* either the table as it was before the request or the complete table of
\* the finished request, never something in between.
C6_NoPartialRead ==
  \A w \in Workers :
    Running(w)
    => /\ ViewOf(read_departments, w, "depts") # "partial"
       /\ ViewOf(read_employees, w, "emps") # "partial"
       /\ ViewOf(read_projects, w, "projs") # "partial"
       /\ ViewOf(read_salaries, w, "sals") # "partial"

\* C7: when two concurrently submitted requests have both returned
\* success, the store holds exactly the rows and counts of one of them.
C7_OneRequestWins ==
  (\A w \in Workers : Ok(w))
  => \E w \in Workers : OnlyRowsOf(reqNo[w]) /\ HoldsCountsOf(params[w])

\* C8: after a successful request every Assignment links an Employee and a
\* Project that are both in the store and have the same department_id.
C8_AssignmentsWithinDepartment ==
  \A w \in Workers :
    Ok(w) => \A a \in store.assigns :
               \E e \in store.emps : \E p \in store.projs :
                 e.id = a.emp /\ p.id = a.proj /\ e.dept = p.dept

C8_Witness ==
  /\ Ok(1)
  /\ Cardinality({p.dept : p \in store.projs}) = 2
  /\ Cardinality(store.assigns) = 4

\* C9: after a successful request with employees_per_dept >= 2 every
\* Project has between 2 and min(5, employees_per_dept) Assignments, each
\* of another employee.
C9_AssignmentsPerProject ==
  \A w \in Workers :
    (Ok(w) /\ params[w].employees_per_dept >= MinAssignees)
    => \A p \in store.projs :
         LET n == Cardinality({a.emp : a \in AssignmentsOf(p.id)})
         IN /\ n = Cardinality(AssignmentsOf(p.id))
            /\ n >= MinAssignees
            /\ n <= Min(MaxAssignees, params[w].employees_per_dept)

C9_Witness ==
  /\ Ok(1)
  /\ params[1].employees_per_dept = 3
  /\ \E p \in store.projs : Cardinality(AssignmentsOf(p.id)) = 3

\* C10: every Employee in the store has a hire_date on or after the
\* established_date of its Department and not after today.
C10_HireDateInDepartmentLifetime ==
  \A e \in store.emps :
    \E d \in store.depts : d.id = e.dept /\ d.est <= e.hire /\ e.hire <= Today

C10_Witness ==
  \E e \in store.emps : \E d \in store.depts :
    d.id = e.dept /\ d.est > MinDate /\ e.hire = d.est /\ e.gen = 2

\* C11: every Salary in the store references an Employee in the store, has
\* a payment_date on or after that employee's hire_date, an amount above 0
\* and a tax_deduction and a bonus of at least 0.
C11_SalaryWellFormed ==
  \A s \in store.sals :
    /\ \E e \in store.emps : e.id = s.emp /\ e.hire <= s.pay
    /\ s.amount > 0
    /\ s.tax >= 0
    /\ s.bonus >= 0

\* a salary of the second request paid on the very day of a late hire,
\* with the smallest bonus
C11_Witness ==
  \E s \in store.sals : \E e \in store.emps :
    e.id = s.emp /\ e.hire > MinDate /\ s.pay = e.hire /\ s.bonus = 0 /\ s.gen = 2

\* C12: during the reset the tables are emptied in the order Assignment,
\* Salary, Project, Employee, Department: before its k-th DELETE the
\* session sees the first k - 1 tables empty and the others untouched, no
\* row it still sees references a row it has deleted, and nothing is
\* committed before all five deletes are done.
C12_ResetChildrenFirst ==
  \A w \in Workers :
    LET k == ResetStep(w)
    IN k > 0
       => /\ \A i \in DOMAIN ResetOrder :
               View(w)[ResetOrder[i]] =
                 IF i < k THEN {} ELSE store[ResetOrder[i]]
          /\ RefClosed(View(w))
          /\ \A t \in DOMAIN store : ~changed[w][t]

\* half way through the reset of a populated store: assignments, salaries
\* and projects are deleted, employees and departments are still there
C12_Witness ==
  /\ pc[1] = "del_employees"
  /\ sess[1].assigns # {} /\ sess[1].sals # {} /\ sess[1].projs # {}
  /\ View(1).emps # {} /\ View(1).depts # {}

\* C13: the stages run in the order Department, Employee, Project,
\* Assignment, Salary, each committed before the next begins: when a
\* request is about to run its k-th stage, the rows of the stages before
\* it are committed in full with nothing pending in the session, no row
\* of the k-th or a later stage exists, and at all times every child row
\* in the store has its parent rows in the store.
C13_StagesInOrder ==
  /\ RefClosed(store)
  /\ \A w \in Workers :
       LET k == StageStep(w)
       IN k > 0
          => /\ \A i \in DOMAIN StageOrder :
                  IF i < k THEN StageCommitted(w, StageOrder[i])
                  ELSE RowsOf(StageOrder[i], reqNo[w]) = {}
             /\ sess[w] = EmptyStore
             /\ w \notin lock
             /\ k > 1 => AllPresent("depts", dept_objects[w])
             /\ k > 2 => AllPresent("emps", employee_objects[w])
             /\ k > 3 => AllPresent("projs", project_objects[w])

\* the second request is about to insert salaries: two departments, four
\* employees, two projects and their assignments are committed
C13_Witness ==
  /\ pc[1] = "gen_salaries" /\ reqNo[1] = 2
  /\ Cardinality(store.depts) = 2
  /\ Cardinality(store.emps) = 4
  /\ Cardinality(store.projs) = 2
  /\ store.assigns # {}
  /\ store.sals = {}

\* C14: when a request has returned the success payload, every number in
\* its stats is at least 0 and is the number of rows of that kind in the
\* store.
C14_StatsMatchStore ==
  \A w \in Workers :
    Ok(w)
    => /\ resp[w].stats.departments >= 0
       /\ resp[w].stats.employees >= 0
       /\ resp[w].stats.projects >= 0
       /\ resp[w].stats.salaries >= 0
       /\ resp[w].stats.departments = Cardinality(store.depts)
       /\ resp[w].stats.employees = Cardinality(store.emps)
       /\ resp[w].stats.projects = Cardinality(store.projs)
       /\ resp[w].stats.salaries = Cardinality(store.sals)

====
